---- MODULE Spec2Model ----
(***************************************************************************)
(* Request / authentication / retry pipeline of Criteo_API_Client.         *)
(*                                                                         *)
(* Every call is a promise chain (criteoApiRequest); a chain that is       *)
(* waiting for a nested chain (authenticate(), or the re-submission made   *)
(* by decideWhetherToRequeue) is a frame below the nested chain's frame on *)
(* the call's stack.  The Transport and fs.writeFile are the environment:  *)
(* they answer with any status, body or error.  Strings are sequences of   *)
(* tokens, so that trim(), JSON.parse and indexOf('401') are computed.     *)
(* Callbacks are the caller's code and are taken to return normally.       *)
(***************************************************************************)
EXTENDS Integers, Sequences, FiniteSets, TLC

\* the callers; each has at most one call in flight
Calls == {1, 2}

\* calls a caller issues one after the other
MaxCalls == 2

VARIABLES token, desc, authDesc, stack, promise, callbackCalls, log, file,
          lastOut, calls, handlerArgs, handlerResult, buildArgs, buildResult

vars == <<token, desc, authDesc, stack, promise, callbackCalls, log, file,
          lastOut, calls, handlerArgs, handlerResult, buildArgs, buildResult>>

(* ------------------------------ strings ------------------------------- *)

\* A string is a sequence of tokens.  In a body: "sp" is whitespace, "obj" a
\* JSON object without access_token, "tok1"/"tok2" a JSON object with
\* access_token T1/T2, "null" the JSON literal null, "401" the digits 401
\* (as JSON, a number), "junk" any other text.

RECURSIVE TrimLeft(_)
TrimLeft(s) == IF s # <<>> /\ Head(s) = "sp" THEN TrimLeft(Tail(s)) ELSE s

RECURSIVE TrimRight(_)
TrimRight(s) ==
    IF s # <<>> /\ s[Len(s)] = "sp" THEN TrimRight(SubSeq(s, 1, Len(s) - 1)) ELSE s

Trim(s) == TrimRight(TrimLeft(s))

\* s.indexOf('401') > -1
Has401(s) == \E i \in 1..Len(s) : s[i] = "401"

Digits(n) == <<n \div 100, (n \div 10) % 10, n % 10>>

\* status.toString().match(/20[0-9]/) !== null
StatusMatches(status) ==
    LET d == Digits(status) IN
    \E i \in 1..(Len(d) - 2) : d[i] = 2 /\ d[i + 1] = 0 /\ d[i + 2] \in 0..9

\* `${status}` inside a message: the token "401" exactly when the digits
\* of the status contain 401
StatusText(status) ==
    LET d == Digits(status) IN
    IF \E i \in 1..(Len(d) - 2) : d[i] = 4 /\ d[i + 1] = 0 /\ d[i + 2] = 1
    THEN "401" ELSE "status"

(* ------------------------------ values -------------------------------- *)

Val(t, v) == [t |-> t, v |-> v]

\* an Error; v is its message
Err(msg) == [t |-> "error", v |-> msg]

Nothing == Val("none", <<>>)

Null == Val("null", <<>>)

Undefined == Val("undefined", <<>>)

IsErr(x) == x.t = "error"

\* x == null
IsNullish(x) == x.t \in {"null", "undefined"}

NotSp(x) == x # "sp"

\* JSON.parse(s): a value, or the SyntaxError it throws
JSONParse(s) ==
    LET w == SelectSeq(s, NotSp) IN
    IF Len(w) = 1 /\ w[1] \in {"obj", "tok1", "tok2"} THEN Val("json", w)
    ELSE IF Len(w) = 1 /\ w[1] = "null" THEN Null
    ELSE IF Len(w) = 1 /\ w[1] = "401" THEN Val("number", w)
    ELSE Err(<<"SyntaxError">>)

\* response.access_token of a parsed token-exchange response
AccessToken(parsed) ==
    IF parsed.t = "json" /\ parsed.v = <<"tok1">> THEN "T1"
    ELSE IF parsed.t = "json" /\ parsed.v = <<"tok2">> THEN "T2"
    ELSE "undefined"

(* ---------------------------- environment ----------------------------- *)

Statuses == {200, 204, 299, 300, 401, 403, 500}

\* text that the environment puts into an error message: of a transport
\* error (an address, a port, a duration), of a failed write (the path)
Texts == { <<"junk">>, <<"junk", "401">> }

\* what the Transport hands back: a raw response, or an Error
ResponsesOf(statuses, bodies, texts) ==
    [kind : {"response"}, status : statuses, body : bodies]
    \cup [kind : {"error"}, status : {0}, body : texts]

\* answers of the token endpoint
AuthBodies == { <<>>, <<"obj">>, <<"tok1">>, <<"tok2">>, <<"null">>,
                <<"junk", "401">> }

AuthResponses == ResponsesOf(Statuses, AuthBodies, Texts)

\* answers of the other endpoints: a result, or a refusal and its reason
OkStatuses == {200, 204}

OkBodies == { <<>>, <<"obj">>, <<"null">>, <<"junk", "401">>, <<"sp", "obj">> }

ErrorBodies == { <<"obj">>, <<"junk", "401">> }

ApiResponses ==
    ResponsesOf(OkStatuses, OkBodies, Texts)
    \cup ResponsesOf(Statuses \ OkStatuses, ErrorBodies, Texts)

\* outcome of fs.writeFile: done, or the text of its error
WriteOutcomes == [ok : {TRUE}, text : {<<>>}] \cup [ok : {FALSE}, text : Texts]

NoWrite == [ok |-> FALSE, text |-> <<>>]

\* the choices of the environment that a handler reads: the outcome of the
\* write (File handler) and the text of the SyntaxError of the JavaScript
\* engine, which may quote the body (JSON handler)
WritesFor(handler) == IF handler = "file" THEN WriteOutcomes ELSE {NoWrite}

SyntaxTextsFor(handler, res) ==
    IF handler = "json" /\ res.kind = "response"
    THEN {<<"junk">>, res.body} ELSE {<<"junk">>}

(* ---------------------------- descriptors ----------------------------- *)

Handlers == {"json", "raw", "file", "auth"}

AuthPath == "/oauth2/token"

NoDesc == [path |-> "", handler |-> "", callback |-> FALSE,
           retry |-> FALSE, callbackExecuted |-> FALSE]

NewDesc(path, handler, cb) ==
    [path |-> path, handler |-> handler, callback |-> cb,
     retry |-> FALSE, callbackExecuted |-> FALSE]

Truthy(tok) == tok \notin {"", "undefined"}

GateIgnoresRetry(tok, r) == Truthy(tok) \/ r.path = AuthPath

GateIgnoresToken(tok, r) == ~r.retry \/ r.path = AuthPath

\* (this.token && !r.retry) || r.path === '/oauth2/token'
GateOpen(tok, r) == (Truthy(tok) /\ ~r.retry) \/ r.path = AuthPath

RequeueWithoutFlag(r, err) == Has401(err.v)

\* err.toString().indexOf('401') > -1 && !r.retry
ShouldRequeue(r, err) == Has401(err.v) /\ ~r.retry

FiresUnguarded(r) == r.callback

\* r.callback && !r.callbackExecuted
FiresCallback(r) == r.callback /\ ~r.callbackExecuted

ResolvesInElse(r) == ~FiresCallback(r)

\* resolveRequest calls resolve(res) whether or not the callback fired
ResolvesPromise(r) == TRUE

RejectsNever(r) == FALSE

RejectsAlways(r) == TRUE

\* rejectRequest calls reject(err) only in the else branch
RejectsPromise(r) == ~FiresCallback(r)

(* ------------------------------ handlers ------------------------------ *)

\* each handler yields [out, token, file]: the value or error its promise
\* settles with, and the Token Store and the file after it ran

NoFile == [written |-> FALSE, content |-> <<>>]

ProcessAuthFirstWins(res, tok, f) ==
    LET parsed == JSONParse(res.body) IN
    IF IsErr(parsed) \/ IsNullish(parsed)
    THEN [out |-> Err(<<"Error Retrieving Session Token">>), token |-> tok,
          file |-> f]
    ELSE LET t == AccessToken(parsed) IN
         [out |-> IF t = "undefined" THEN Undefined ELSE Val("token", <<t>>),
          token |-> IF Truthy(tok) THEN tok ELSE t, file |-> f]

\* processAuth: JSON.parse(res.body), this.token = response.access_token
ProcessAuth(res, tok, f) ==
    LET parsed == JSONParse(res.body) IN
    IF IsErr(parsed) \/ IsNullish(parsed)
    THEN [out |-> Err(<<"Error Retrieving Session Token">>), token |-> tok,
          file |-> f]
    ELSE LET t == AccessToken(parsed) IN
         [out |-> IF t = "undefined" THEN Undefined ELSE Val("token", <<t>>),
          token |-> t, file |-> f]

ParseJSON(body, syntaxText) ==
    IF body # <<>>
    THEN LET parsed == JSONParse(body) IN
         IF IsErr(parsed)
         THEN Err(<<"Error Parsing JSON Response">> \o syntaxText)
         ELSE parsed
    ELSE Val("true", <<>>)

ParseResponse(body) ==
    IF body # <<>> THEN Val("text", body) ELSE Val("true", <<>>)

SaveToFile(body, w) ==
    IF w.ok THEN Val("saved", <<>>)
    ELSE Err(<<"Error Saving Response to File">> \o w.text)

\* process(res, parser): the status check rejects but does not return, so
\* the parser runs on every response; the first settlement wins
Process(handler, res, tok, f, w, syntaxText) ==
    LET body == Trim(res.body)
        parsed == CASE handler = "json" -> ParseJSON(body, syntaxText)
                    [] handler = "raw" -> ParseResponse(body)
                    [] OTHER -> SaveToFile(body, w)
        f2 == IF handler = "file" /\ w.ok
              THEN [written |-> TRUE, content |-> body] ELSE f
    IN  IF ~StatusMatches(res.status)
        THEN [out |-> Err(<<"Bad Response From API", StatusText(res.status)>>
                          \o res.body),
              token |-> tok, file |-> f2]
        ELSE [out |-> parsed, token |-> tok, file |-> f2]

HandleAsAuth(handler, res, tok, f, w, syntaxText) == ProcessAuth(res, tok, f)

\* r.handler(res)
Handle(handler, res, tok, f, w, syntaxText) ==
    IF handler = "auth" THEN ProcessAuth(res, tok, f)
    ELSE Process(handler, res, tok, f, w, syntaxText)

(* ------------------------- building a request ------------------------ *)

\* a header value is a sequence of words; a header that is not set has none
Absent == <<>>

DefaultKeys == {"Authorization", "Accept", "Content-Type", "User-Agent"}

HeaderKeys == DefaultKeys \cup {"X-Own"}

\* request(method, req): the headers handed to the Transport,
\* {...headers, ...req.headers}; RequestDefaultsWin merges the other way
RequestDefaultsWin(tok, own) ==
    [k \in HeaderKeys |->
        CASE k = "Authorization" -> <<"Bearer", tok>>
          [] k = "Accept" -> <<"application/json, text/xml">>
          [] k = "Content-Type" -> <<"application/*+json">>
          [] k = "User-Agent" -> <<"criteo-api-nodejs-client/v">>
          [] OTHER -> own[k]]

Request(tok, own) ==
    LET headers ==
          [k \in HeaderKeys |->
              CASE k = "Authorization" -> <<"Bearer", tok>>
                [] k = "Accept" -> <<"application/json, text/xml">>
                [] k = "Content-Type" -> <<"application/*+json">>
                [] k = "User-Agent" -> <<"criteo-api-nodejs-client/v">>
                [] OTHER -> Absent]
    IN [k \in HeaderKeys |-> IF own[k] # Absent THEN own[k] ELSE headers[k]]

\* a character of query.format, and String.prototype.toLowerCase on it
FormatChars == {"j", "J", "s", "S", "o", "O", "n", "c"}

ToLowerCase(s) ==
    [i \in 1..Len(s) |->
        CASE s[i] = "J" -> "j" [] s[i] = "S" -> "s" [] s[i] = "O" -> "o"
          [] OTHER -> s[i]]

\* a filepath argument: left out, the empty string, or a path
Filepaths == {"undefined", "", "./reports/results.csv"}

\* if (filepath)
FilepathGiven(filepath) == filepath \notin {"undefined", ""}

Selected(handler, filepath) == [handler |-> handler, filepath |-> filepath]

\* determineStatsHandler(query, filepath), format being query.format;
\* DetermineStatsHandlerCaseSensitive leaves toLowerCase out
DetermineStatsHandlerCaseSensitive(format, filepath) ==
    IF FilepathGiven(filepath) THEN Selected("file", filepath)
    ELSE IF format = <<"j", "s", "o", "n">> THEN Selected("json", "undefined")
    ELSE Selected("raw", "undefined")

DetermineStatsHandler(format, filepath) ==
    IF FilepathGiven(filepath) THEN Selected("file", filepath)
    ELSE IF ToLowerCase(format) = <<"j", "s", "o", "n">>
    THEN Selected("json", "undefined")
    ELSE Selected("raw", "undefined")

DetermineReportHandler(filepath) ==
    IF FilepathGiven(filepath) THEN Selected("file", filepath)
    ELSE Selected("raw", "undefined")

NoHeaders == [k \in HeaderKeys |-> Absent]

NoBuildArgs == [fn |-> "", tok |-> "", headers |-> NoHeaders, format |-> <<>>,
                filepath |-> "undefined"]

NoBuild == [done |-> FALSE, headers |-> NoHeaders,
            selected |-> Selected("", "undefined")]

(* ------------------------------- state -------------------------------- *)

Frame(d, pc, out) == [d |-> d, pc |-> pc, out |-> out]

Pending == [state |-> "pending", val |-> Nothing]

Event(e, bearer) == [e |-> e, bearer |-> bearer]

\* a handler called on its own, outside a call: its arguments and what it
\* yields
NoArgs == [handler |-> "", res |-> [kind |-> "", status |-> 0, body |-> <<>>],
           tok |-> "", w |-> NoWrite, syntaxText |-> <<>>]

NoResult == [out |-> Nothing, token |-> "", file |-> NoFile]

Init ==
    /\ token = ""
    /\ desc = [c \in Calls |-> NoDesc]
    /\ authDesc = [c \in Calls |-> NoDesc]
    /\ stack = [c \in Calls |-> <<>>]
    /\ promise = [c \in Calls |-> Pending]
    /\ callbackCalls = [c \in Calls |-> <<>>]
    /\ log = [c \in Calls |-> <<>>]
    /\ file = [c \in Calls |-> NoFile]
    /\ lastOut = [c \in Calls |-> Nothing]
    /\ calls = [c \in Calls |-> 0]
    /\ handlerArgs = NoArgs
    /\ handlerResult = NoResult
    /\ buildArgs = NoBuildArgs
    /\ buildResult = NoBuild

Top(c) == stack[c][Len(stack[c])]

\* no continuation of the call is left to run
Finished(c) ==
    /\ desc[c] # NoDesc
    /\ IF stack[c] = <<>> THEN TRUE ELSE Top(c).pc = "pending"

At(c, pc) == stack[c] # <<>> /\ Top(c).pc = pc

\* the descriptor the top frame of call c works on
Cur(c) == IF Top(c).d = "main" THEN desc[c] ELSE authDesc[c]

SetTop(c, fr) == [stack EXCEPT ![c] = [@ EXCEPT ![Len(@)] = fr]]

Push(c, parent, child) ==
    [stack EXCEPT ![c] = Append([@ EXCEPT ![Len(@)] = parent], child)]

\* where the chain that waits for a criteoApiRequest promise continues
\* when that promise settles
Continuation(pc, state) ==
    IF pc = "awaitAuth"
    THEN (IF state = "resolved" THEN "executeRequest"
                                ELSE "decideWhetherToRequeue")
    ELSE (IF state = "resolved" THEN "resolveRequest" ELSE "rejectRequest")

SettleCallerAtOnce(c, state, out) ==
    LET rest == SubSeq(stack[c], 1, Len(stack[c]) - 1) IN
    /\ promise' = [promise EXCEPT ![c] = [state |-> state, val |-> out]]
    /\ IF rest = <<>>
       THEN stack' = [stack EXCEPT ![c] = <<>>]
       ELSE LET p == rest[Len(rest)] IN
            stack' = [stack EXCEPT ![c] =
               [rest EXCEPT ![Len(rest)] = Frame(p.d, Continuation(p.pc, state), out)]]

\* the promise of the top frame's criteoApiRequest settles: the chain that
\* waits for it continues, or the caller's promise settles
Settle(c, state, out) ==
    LET rest == SubSeq(stack[c], 1, Len(stack[c]) - 1) IN
    IF rest = <<>>
    THEN /\ stack' = [stack EXCEPT ![c] = <<>>]
         /\ promise' = [promise EXCEPT ![c] = [state |-> state, val |-> out]]
    ELSE LET p == rest[Len(rest)] IN
         /\ stack' = [stack EXCEPT ![c] =
               [rest EXCEPT ![Len(rest)] = Frame(p.d, Continuation(p.pc, state), out)]]
         /\ UNCHANGED promise

(* ------------------------------ actions ------------------------------- *)

\* an Endpoint Method (handler json, raw or file) or authenticate(callback)
\* builds a fresh descriptor and hands it to criteoApiRequest; the record
\* of the caller's previous, finished call is dropped
Submit(c, handler, cb) ==
    /\ IF desc[c] = NoDesc THEN TRUE ELSE Finished(c)
    /\ calls[c] < MaxCalls
    /\ calls' = [calls EXCEPT ![c] = @ + 1]
    /\ desc' = [desc EXCEPT ![c] =
                  NewDesc(IF handler = "auth" THEN AuthPath ELSE "/api", handler, cb)]
    /\ authDesc' = [authDesc EXCEPT ![c] = NoDesc]
    /\ stack' = [stack EXCEPT ![c] = <<Frame("main", "checkAuthentication", Nothing)>>]
    /\ promise' = [promise EXCEPT ![c] = Pending]
    /\ callbackCalls' = [callbackCalls EXCEPT ![c] = <<>>]
    /\ log' = [log EXCEPT ![c] = <<>>]
    /\ file' = [file EXCEPT ![c] = NoFile]
    /\ lastOut' = [lastOut EXCEPT ![c] = Nothing]
    /\ UNCHANGED <<token, handlerArgs, handlerResult, buildArgs, buildResult>>

checkAuthentication(c) ==
    /\ At(c, "checkAuthentication")
    /\ stack' = SetTop(c, Frame(Top(c).d,
                    IF GateOpen(token, Cur(c)) THEN "executeRequest"
                                               ELSE "authenticate", Nothing))
    /\ UNCHANGED <<token, desc, authDesc, promise, callbackCalls, log, file,
                   lastOut, calls,
                   handlerArgs, handlerResult, buildArgs, buildResult>>

authenticate(c) ==
    /\ At(c, "authenticate")
    /\ authDesc' = [authDesc EXCEPT ![c] = NewDesc(AuthPath, "auth", FALSE)]
    /\ stack' = Push(c, Frame(Top(c).d, "awaitAuth", Nothing),
                        Frame("auth", "checkAuthentication", Nothing))
    /\ log' = [log EXCEPT ![c] = Append(@, Event("authenticate", ""))]
    /\ UNCHANGED <<token, desc, promise, callbackCalls, file, lastOut, calls,
                   handlerArgs, handlerResult, buildArgs, buildResult>>

\* executeRequest up to the Transport: request() stamps the current token
executeRequest(c) ==
    /\ At(c, "executeRequest")
    /\ stack' = SetTop(c, Frame(Top(c).d, "awaitResponse", Nothing))
    /\ log' = [log EXCEPT ![c] =
                 Append(@, Event(IF Top(c).d = "main" THEN "send" ELSE "sendAuth",
                                 token))]
    /\ UNCHANGED <<token, desc, authDesc, promise, callbackCalls, file,
                   lastOut, calls,
                   handlerArgs, handlerResult, buildArgs, buildResult>>

\* how the log names the outcome of an execution
Outcome(out) ==
    IF ~IsErr(out) THEN "ok"
    ELSE IF out.v[1] = "Bad Response From API" /\ out.v[2] = "401" THEN "status401"
    ELSE "failed"

\* the Transport answers and r.handler runs on the answer
respond(c, res, w, syntaxText) ==
    /\ At(c, "awaitResponse")
    /\ LET h == IF res.kind = "error"
                THEN [out |-> Err(res.body), token |-> token, file |-> file[c]]
                ELSE Handle(Cur(c).handler, res, token, file[c], w, syntaxText)
       IN /\ token' = h.token
          /\ file' = [file EXCEPT ![c] = h.file]
          /\ lastOut' = [lastOut EXCEPT ![c] = h.out]
          /\ log' = [log EXCEPT ![c] =
                       Append(@, Event(Outcome(h.out),
                                       IF Cur(c).handler = "auth" /\ ~IsErr(h.out)
                                       THEN h.token ELSE ""))]
          /\ stack' = SetTop(c, Frame(Top(c).d,
                          IF IsErr(h.out) THEN "decideWhetherToRequeue"
                                          ELSE "resolveRequest", h.out))
    /\ UNCHANGED <<desc, authDesc, promise, callbackCalls, calls,
                   handlerArgs, handlerResult, buildArgs, buildResult>>

SetRetryShared(c) ==
    IF Top(c).d = "main"
    THEN /\ desc' = [d \in Calls |->
                       IF desc[d] = NoDesc THEN desc[d]
                       ELSE [desc[d] EXCEPT !.retry = TRUE]]
         /\ UNCHANGED authDesc
    ELSE /\ authDesc' = [authDesc EXCEPT ![c].retry = TRUE]
         /\ UNCHANGED desc

\* r.retry = true, on the descriptor the chain works on
SetRetry(c) ==
    IF Top(c).d = "main"
    THEN /\ desc' = [desc EXCEPT ![c].retry = TRUE]
         /\ UNCHANGED authDesc
    ELSE /\ authDesc' = [authDesc EXCEPT ![c].retry = TRUE]
         /\ UNCHANGED desc

decideWhetherToRequeue(c) ==
    /\ At(c, "decideWhetherToRequeue")
    /\ IF ShouldRequeue(Cur(c), Top(c).out)
       THEN /\ SetRetry(c)
            /\ stack' = Push(c, Frame(Top(c).d, "awaitRequeue", Nothing),
                                Frame(Top(c).d, "checkAuthentication", Nothing))
            /\ log' = [log EXCEPT ![c] =
                  Append(@, Event(IF Top(c).d = "main" THEN "requeue"
                                                       ELSE "requeueAuth", ""))]
       ELSE /\ stack' = SetTop(c, Frame(Top(c).d, "rejectRequest", Top(c).out))
            /\ UNCHANGED <<desc, authDesc, log>>
    /\ UNCHANGED <<token, promise, callbackCalls, file, lastOut, calls,
                   handlerArgs, handlerResult, buildArgs, buildResult>>

MarkExecuted(c) ==
    IF Top(c).d = "main"
    THEN /\ desc' = [desc EXCEPT ![c].callbackExecuted = TRUE]
         /\ UNCHANGED authDesc
    ELSE /\ authDesc' = [authDesc EXCEPT ![c].callbackExecuted = TRUE]
         /\ UNCHANGED desc

\* a promise that nothing settles: the chain that waits for it stops
NeverSettles(c) ==
    /\ stack' = SetTop(c, Frame(Top(c).d, "pending", Top(c).out))
    /\ UNCHANGED promise

resolveRequest(c) ==
    /\ At(c, "resolveRequest")
    /\ IF FiresCallback(Cur(c))
       THEN /\ MarkExecuted(c)
            /\ callbackCalls' = [callbackCalls EXCEPT ![c] =
                   Append(@, [err |-> Null, res |-> Top(c).out])]
       ELSE UNCHANGED <<desc, authDesc, callbackCalls>>
    /\ IF ResolvesPromise(Cur(c)) THEN Settle(c, "resolved", Top(c).out)
                                  ELSE NeverSettles(c)
    /\ UNCHANGED <<token, log, file, lastOut, calls,
                   handlerArgs, handlerResult, buildArgs, buildResult>>

\* r.callback(err) passes no second argument
rejectRequest(c) ==
    /\ At(c, "rejectRequest")
    /\ IF FiresCallback(Cur(c))
       THEN /\ MarkExecuted(c)
            /\ callbackCalls' = [callbackCalls EXCEPT ![c] =
                   Append(@, [err |-> Top(c).out, res |-> Undefined])]
       ELSE UNCHANGED <<desc, authDesc, callbackCalls>>
    /\ IF RejectsPromise(Cur(c)) THEN Settle(c, "rejected", Top(c).out)
                                 ELSE NeverSettles(c)
    /\ UNCHANGED <<token, log, file, lastOut, calls,
                   handlerArgs, handlerResult, buildArgs, buildResult>>

\* the steps of caller c; again: the caller issues further calls
Step(c, handlers, apiResponses, authResponses, again) ==
    \/ \E h \in handlers, cb \in BOOLEAN :
           /\ again \/ calls[c] = 0
           /\ Submit(c, h, cb)
    \/ checkAuthentication(c)
    \/ authenticate(c)
    \/ executeRequest(c)
    \/ /\ At(c, "awaitResponse")
       /\ \E res \in IF Cur(c).path = AuthPath THEN authResponses ELSE apiResponses :
          \E w \in WritesFor(Cur(c).handler),
             syntaxText \in SyntaxTextsFor(Cur(c).handler, res) :
              respond(c, res, w, syntaxText)
    \/ decideWhetherToRequeue(c)
    \/ resolveRequest(c)
    \/ rejectRequest(c)

\* one caller issuing one call after the other: any handler, any answer
Next == Step(1, Handlers, ApiResponses, AuthResponses, TRUE)

Spec == Init /\ [][Next]_vars

\* the event loop runs every continuation that is ready, and the Transport
\* answers every request: a call in flight keeps taking steps
SpecLive == Init /\ [][Next]_vars /\ WF_vars(Next /\ calls' = calls)

\* two callers, one call each, the calls overlapping: JSON handler for the
\* first caller and Raw handler for the second, the Transport answers every
\* request
ConcStatuses == {200, 401}

ConcResponses(bodies) == [kind : {"response"}, status : ConcStatuses, body : bodies]

NextConc ==
    \E c \in Calls :
        Step(c, IF c = 1 THEN {"json"} ELSE {"raw"}, ConcResponses({<<"obj">>}),
             ConcResponses({<<"tok1">>, <<"tok2">>}), FALSE)

SpecConc == Init /\ [][NextConc]_vars

\* one handler run on one response: any handler, any status, any short body
MaxBodyLen == 2

BodyTokens == {"sp", "obj", "tok1", "tok2", "null", "401", "junk"}

Bodies == UNION {[1..n -> BodyTokens] : n \in 0..MaxBodyLen}

HandlerStatuses == Statuses \cup {199, 201, 209, 210}

HandlerArgs ==
    { a \in [handler : Handlers,
             res : [kind : {"response"}, status : HandlerStatuses, body : Bodies],
             tok : {"", "T0"}, w : WriteOutcomes \cup {NoWrite},
             syntaxText : {<<"junk">>}] :
        a.w \in WritesFor(a.handler) }

InitHandler ==
    /\ token = ""
    /\ desc = [c \in Calls |-> NoDesc]
    /\ authDesc = [c \in Calls |-> NoDesc]
    /\ stack = [c \in Calls |-> <<>>]
    /\ promise = [c \in Calls |-> Pending]
    /\ callbackCalls = [c \in Calls |-> <<>>]
    /\ log = [c \in Calls |-> <<>>]
    /\ file = [c \in Calls |-> NoFile]
    /\ lastOut = [c \in Calls |-> Nothing]
    /\ calls = [c \in Calls |-> 0]
    /\ handlerArgs \in HandlerArgs
    /\ handlerResult = NoResult
    /\ buildArgs = NoBuildArgs
    /\ buildResult = NoBuild

\* r.handler(res) with this.token = handlerArgs.tok
runHandler ==
    /\ handlerResult = NoResult
    /\ handlerResult' = Handle(handlerArgs.handler, handlerArgs.res,
                               handlerArgs.tok, NoFile, handlerArgs.w,
                               handlerArgs.syntaxText)
    /\ UNCHANGED <<token, desc, authDesc, stack, promise, callbackCalls, log,
                   file, lastOut, calls, handlerArgs, buildArgs, buildResult>>

NextHandler == runHandler

SpecHandler == InitHandler /\ [][NextHandler]_vars

\* one request built, or one handler selected: any token, any headers of
\* the descriptor, any short query.format, any filepath
MaxFormatLen == 4

Formats == UNION {[1..n -> FormatChars] : n \in 0..MaxFormatLen}

OwnHeaders == [HeaderKeys -> {Absent, <<"own">>}]

BuildArgs ==
    [fn : {"request"}, tok : {"", "undefined", "T1"}, headers : OwnHeaders,
     format : {<<>>}, filepath : {"undefined"}]
    \cup [fn : {"determineStatsHandler"}, tok : {""}, headers : {NoHeaders},
          format : Formats, filepath : Filepaths]
    \cup [fn : {"determineReportHandler"}, tok : {""}, headers : {NoHeaders},
          format : {<<>>}, filepath : Filepaths]

InitBuild ==
    /\ token = ""
    /\ desc = [c \in Calls |-> NoDesc]
    /\ authDesc = [c \in Calls |-> NoDesc]
    /\ stack = [c \in Calls |-> <<>>]
    /\ promise = [c \in Calls |-> Pending]
    /\ callbackCalls = [c \in Calls |-> <<>>]
    /\ log = [c \in Calls |-> <<>>]
    /\ file = [c \in Calls |-> NoFile]
    /\ lastOut = [c \in Calls |-> Nothing]
    /\ calls = [c \in Calls |-> 0]
    /\ handlerArgs = NoArgs
    /\ handlerResult = NoResult
    /\ buildArgs \in BuildArgs
    /\ buildResult = NoBuild

Built(result) ==
    /\ ~buildResult.done
    /\ buildResult' = result
    /\ UNCHANGED <<token, desc, authDesc, stack, promise, callbackCalls, log,
                   file, lastOut, calls, handlerArgs, handlerResult, buildArgs>>

\* request(method, req) with this.token = buildArgs.tok
request ==
    /\ buildArgs.fn = "request"
    /\ Built([done |-> TRUE,
              headers |-> Request(buildArgs.tok, buildArgs.headers),
              selected |-> Selected("", "undefined")])

determineStatsHandler ==
    /\ buildArgs.fn = "determineStatsHandler"
    /\ Built([done |-> TRUE, headers |-> NoHeaders,
              selected |-> DetermineStatsHandler(buildArgs.format,
                                                 buildArgs.filepath)])

determineReportHandler ==
    /\ buildArgs.fn = "determineReportHandler"
    /\ Built([done |-> TRUE, headers |-> NoHeaders,
              selected |-> DetermineReportHandler(buildArgs.filepath)])

NextBuild == request \/ determineStatsHandler \/ determineReportHandler

SpecBuild == InitBuild /\ [][NextBuild]_vars

(* ------------------------------ claims -------------------------------- *)

RECURSIVE Count(_, _)
Count(s, e) ==
    IF s = <<>> THEN 0 ELSE (IF Head(s).e = e THEN 1 ELSE 0) + Count(Tail(s), e)

Suffix(s, i) == SubSeq(s, i + 1, Len(s))

IsFailure(e) == e \in {"status401", "failed"}

\* the call in progress of caller c is the same call in the next state
SameCall(c) == calls'[c] = calls[c]

\* the last execution of the call's own request returned a result
Succeeded(c) ==
    /\ Finished(c)
    /\ Len(log[c]) >= 2
    /\ log[c][Len(log[c]) - 1].e = "send"
    /\ log[c][Len(log[c])].e = "ok"

\* the call ended with an error
Failed(c) == Finished(c) /\ IsErr(lastOut[c])

\* C1: a descriptor is retried at most once: its retry flag, once true, stays
\* true; it is requeued at most once; its request is sent at most twice; and
\* the request sent after the requeue is the last thing the call sends,
\* whatever the answer (a 401 on the retry attempt is terminal).
C1_RetryAtMostOnce ==
    /\ [][\A c \in Calls : (SameCall(c) /\ desc[c].retry) => desc'[c].retry]_vars
    /\ [](\A c \in Calls :
            /\ Count(log[c], "requeue") <= 1
            /\ Count(log[c], "send") <= 2
            /\ \A i, j \in 1..Len(log[c]) :
                  (i < j /\ log[c][i].e = "requeue" /\ log[c][j].e = "send")
                  => /\ Len(log[c]) <= j + 1
                     /\ \A k \in (j + 1)..Len(log[c]) :
                           log[c][k].e \in {"ok", "status401", "failed"})

\* C1 witness: the retry attempt was answered 401 and the call finished after
\* two executions
C1_Witness ==
    \E c \in Calls :
        /\ Finished(c) /\ desc[c].retry
        /\ Count(log[c], "send") = 2
        /\ log[c][Len(log[c])].e = "status401"

\* the first execution of the call's request is log entry i - 1, it was
\* answered 401 and the descriptor had not been requeued
FirstExecution401(c, i) ==
    /\ i \in 2..Len(log[c])
    /\ log[c][i].e = "status401"
    /\ log[c][i - 1].e = "send"
    /\ Count(SubSeq(log[c], 1, i), "requeue") = 0

\* the Authenticator run recorded in s obtained an answer it accepted
AuthenticationSucceeded(s) ==
    \E k \in 1..(Len(s) - 1) : s[k].e = "sendAuth" /\ s[k + 1].e = "ok"

\* C2 as stated: after a 401 on the first execution of a descriptor that
\* was not retried, the finished call shows exactly one further run of the
\* Authenticator and exactly one further execution.
C2_AsStated ==
    \A c \in Calls : \A i \in 1..Len(log[c]) :
        (Finished(c) /\ FirstExecution401(c, i))
        => /\ Count(Suffix(log[c], i), "authenticate") = 1
           /\ Count(Suffix(log[c], i), "send") = 1

\* C2 amended: after a 401 on the first execution of a descriptor that was
\* not retried, the finished call shows exactly one further run of the
\* Authenticator, followed by exactly one further execution if that run
\* succeeded and by none if it failed; the answer to that execution, 401
\* included, is the last entry: nothing is authenticated or sent after it.
C2_OneReauthThenOneReexecution ==
    \A c \in Calls : \A i \in 1..Len(log[c]) :
        (Finished(c) /\ FirstExecution401(c, i))
        => LET s == Suffix(log[c], i) IN
           /\ Count(s, "authenticate") = 1
           /\ Count(s, "requeue") = 1
           /\ Count(s, "send") = IF AuthenticationSucceeded(s) THEN 1 ELSE 0
           /\ \A j \in 1..Len(s) :
                 s[j].e = "send"
                 => /\ \E k \in 1..(j - 1) : s[k].e = "authenticate"
                    /\ j + 1 = Len(s)

\* C2 witness: first execution 401, one re-authentication, one re-execution,
\* which is answered 401 again, and the call finished
C2_Witness ==
    \E c \in Calls : \E i \in 1..Len(log[c]) :
        /\ Finished(c) /\ FirstExecution401(c, i)
        /\ Count(Suffix(log[c], i), "send") = 1
        /\ log[c][Len(log[c])].e = "status401"

\* C3: the callback of a descriptor is never invoked twice, a finished call
\* has invoked it exactly once if the descriptor has one (and never
\* otherwise), and callbackExecuted, once true, stays true.
C3_CallbackExactlyOnce ==
    /\ [](\A c \in Calls :
            /\ Len(callbackCalls[c]) <= 1
            /\ Finished(c) =>
                 Len(callbackCalls[c]) = IF desc[c].callback THEN 1 ELSE 0)
    /\ [][\A c \in Calls :
            (SameCall(c) /\ desc[c].callbackExecuted) => desc'[c].callbackExecuted]_vars

\* C3 witness: a call with a callback finished after a retry that succeeded
C3_Witness ==
    \E c \in Calls :
        /\ Succeeded(c) /\ desc[c].callback /\ desc[c].retry
        /\ Len(callbackCalls[c]) = 1

\* C4 as stated: every finished call that failed has its promise rejected
\* with the final error.
C4_AsStated ==
    \A c \in Calls :
        Failed(c) => promise[c] = [state |-> "rejected", val |-> lastOut[c]]

\* C4 amended: a finished call that failed without a callback has its
\* promise rejected with the final error; one that failed with a callback
\* has invoked the callback once with the final error and its promise stays
\* pending.
C4_FailureDelivered ==
    \A c \in Calls :
        Failed(c) =>
            IF desc[c].callback
            THEN /\ promise[c] = Pending
                 /\ callbackCalls[c] = <<[err |-> lastOut[c], res |-> Undefined]>>
            ELSE /\ promise[c] = [state |-> "rejected", val |-> lastOut[c]]
                 /\ callbackCalls[c] = <<>>

\* C4 witness: a call without a callback failed on its retry attempt and its
\* promise is rejected
C4_Witness ==
    \E c \in Calls :
        /\ Failed(c) /\ ~desc[c].callback /\ desc[c].retry
        /\ promise[c].state = "rejected"

\* C5: the promise of a finished call whose last execution returned a result
\* is resolved with that result.
C5_ResolvesWithHandlerOutput ==
    \A c \in Calls :
        Succeeded(c) => promise[c] = [state |-> "resolved", val |-> lastOut[c]]

\* C5 witness: a call with a callback succeeded on the retry attempt
C5_Witness ==
    \E c \in Calls :
        /\ Succeeded(c) /\ desc[c].retry /\ desc[c].callback
        /\ promise[c].state = "resolved" /\ promise[c].val.t = "json"

\* the chain waiting for the promise of the top frame, or the caller, sees
\* it settle as state with out
SettlesAs(c, state, out) ==
    IF Len(stack[c]) = 1
    THEN promise'[c] = [state |-> state, val |-> out]
    ELSE /\ Len(stack'[c]) = Len(stack[c]) - 1
         /\ stack'[c][Len(stack'[c])].out = out
         /\ stack'[c][Len(stack'[c])].pc
               = Continuation(stack[c][Len(stack[c]) - 1].pc, state)

\* C6: a step of rejectRequest on a descriptor with a callback that has not
\* fired invokes the callback with the error, marks it fired and leaves the
\* promise pending; on any other descriptor it invokes no callback and
\* rejects the promise with the error.
C6_SettleFailure ==
    [][\A c \in Calls :
         (At(c, "rejectRequest") /\ stack'[c] # stack[c]) =>
            LET r == Cur(c)
                err == Top(c).out
            IN IF r.callback /\ ~r.callbackExecuted
               THEN /\ callbackCalls'[c] =
                         Append(callbackCalls[c], [err |-> err, res |-> Undefined])
                    /\ IsErr(err)
                    /\ desc'[c].callbackExecuted
                    /\ promise'[c] = promise[c]
                    /\ Len(stack'[c]) = Len(stack[c])
                    /\ stack'[c][Len(stack'[c])].pc = "pending"
               ELSE /\ callbackCalls'[c] = callbackCalls[c]
                    /\ SettlesAs(c, "rejected", err)]_vars

\* C6 witness: rejectRequest has fired the callback with the error and the
\* promise is pending
C6_Witness ==
    \E c \in Calls :
        /\ At(c, "pending") /\ desc[c].callbackExecuted
        /\ Len(callbackCalls[c]) = 1 /\ IsErr(callbackCalls[c][1].err)
        /\ promise[c] = Pending

\* C7: a step of resolveRequest invokes the callback with (null, result)
\* and marks it fired exactly when the descriptor has a callback that has
\* not fired, and always resolves the promise with the result; a finished
\* call that succeeded on the retry attempt has invoked its callback once,
\* with the result of the retry, and its promise is resolved with it.
C7_SettleSuccess ==
    /\ [][\A c \in Calls :
            (At(c, "resolveRequest") /\ stack'[c] # stack[c]) =>
               LET r == Cur(c)
                   res == Top(c).out
               IN /\ IF r.callback /\ ~r.callbackExecuted
                     THEN /\ callbackCalls'[c] =
                               Append(callbackCalls[c], [err |-> Null, res |-> res])
                          /\ desc'[c].callbackExecuted
                     ELSE /\ callbackCalls'[c] = callbackCalls[c]
                          /\ desc'[c] = desc[c]
                  /\ SettlesAs(c, "resolved", res)]_vars
    /\ [](\A c \in Calls :
            (Succeeded(c) /\ desc[c].retry) =>
               /\ promise[c] = [state |-> "resolved", val |-> lastOut[c]]
               /\ callbackCalls[c] =
                     IF desc[c].callback
                     THEN <<[err |-> Null, res |-> lastOut[c]]>> ELSE <<>>)

\* C7 witness: the outer resolveRequest of a retried call is about to run
\* although the callback has already fired in the retry pass
C7_Witness ==
    \E c \in Calls :
        /\ At(c, "resolveRequest") /\ Len(stack[c]) = 1
        /\ desc[c].retry /\ desc[c].callback /\ desc[c].callbackExecuted

\* C8: in every callback invocation exactly one of error and result is
\* null or undefined.
C8_NodeStyleArguments ==
    \A c \in Calls : \A i \in 1..Len(callbackCalls[c]) :
        IsNullish(callbackCalls[c][i].err) # IsNullish(callbackCalls[c][i].res)

IsStatusError(err) == IsErr(err) /\ err.v[1] = "Bad Response From API"

Is401StatusError(err) == IsStatusError(err) /\ err.v[2] = "401"

\* decideWhetherToRequeue, looking at the error of the top frame, requeues
Requeues(c) ==
    /\ At(c, "decideWhetherToRequeue")
    /\ \/ desc'[c].retry # desc[c].retry
       \/ authDesc'[c].retry # authDesc[c].retry
       \/ log'[c] # log[c]

\* C9: a status error is requeued only if its status is 401 and the
\* descriptor is on its first attempt.
C9_OnlyStatus401Retried ==
    [][\A c \in Calls :
         (Requeues(c) /\ IsStatusError(Top(c).out))
         => (Top(c).out.v[2] = "401" /\ ~desc[c].retry)]_vars

\* the error in front of decideWhetherToRequeue comes from the Execute stage
\* of the call's own descriptor, an Endpoint Method's
ExecuteStageFailed(c) ==
    /\ At(c, "decideWhetherToRequeue")
    /\ Top(c).d = "main"
    /\ desc[c].path # AuthPath
    /\ log[c][Len(log[c]) - 1].e = "send"

\* C10: an Execute-stage failure that is not a status error with status 401
\* is never requeued.
C10_OtherFailuresTerminal ==
    [][\A c \in Calls :
         (Requeues(c) /\ ExecuteStageFailed(c)) => Is401StatusError(Top(c).out)]_vars

(* --------------------- authentication and tokens ---------------------- *)

\* log entry i is the failure that ends a run of the Authenticator: the
\* answer to a token exchange failed and the exchange is not sent again
AuthenticateStageFailed(c, i) ==
    /\ i \in 2..Len(log[c])
    /\ log[c][i - 1].e = "sendAuth"
    /\ IsFailure(log[c][i].e)
    /\ i < Len(log[c]) => log[c][i + 1].e # "requeueAuth"

\* C11: when the Authenticate stage of a call fails, the call fails with
\* that error: nothing follows the failure (the descriptor is neither
\* executed nor requeued), the finished call has failed, and the token is
\* the one the token exchange was sent with.
C11_AuthenticationFailureTerminal ==
    \A c \in Calls : \A i \in 1..Len(log[c]) :
        (desc[c].path # AuthPath /\ AuthenticateStageFailed(c, i))
        => /\ Len(log[c]) = i
           /\ token = log[c][i - 1].bearer
           /\ Finished(c) => Failed(c)

\* the handler named h has run on its own
Ran(h) == handlerResult # NoResult /\ handlerArgs.handler = h

\* the status is a 2xx status
In2xx(status) == status \in 200..299

\* the body is a JSON object with an access_token field
HasAccessToken(body) == AccessToken(JSONParse(body)) # "undefined"

\* C12: the authentication handler fails whenever the token-exchange
\* response has a non-2xx status or lacks the access_token field, and when
\* it fails the token is the one held before.
C12_ExchangeChecked ==
    Ran("auth")
    => /\ (~In2xx(handlerArgs.res.status) \/ ~HasAccessToken(handlerArgs.res.body))
          => IsErr(handlerResult.out)
       /\ IsErr(handlerResult.out) => handlerResult.token = handlerArgs.tok

\* C13: a failed authentication is not retried: within one run of the
\* Authenticator the token exchange is sent once, so between two token
\* exchanges of a call there is a new run of the Authenticator, and the
\* token-exchange descriptor is never requeued.
C13_ExchangeSentOnce ==
    \A c \in Calls :
        /\ Count(log[c], "requeueAuth") = 0
        /\ \A i, j \in 1..Len(log[c]) :
              (i < j /\ log[c][i].e = "sendAuth" /\ log[c][j].e = "sendAuth")
              => \E k \in (i + 1)..(j - 1) : log[c][k].e = "authenticate"

\* C14: the status validation of the JSON, Raw and File handlers accepts a
\* response exactly when its status is in 200..299, and rejects every other
\* response with the error that carries the status and the raw body.
C14_Accepts2xx ==
    \A h \in {"json", "raw", "file"} :
        Ran(h)
        => /\ IsStatusError(handlerResult.out) <=> ~In2xx(handlerArgs.res.status)
           /\ ~In2xx(handlerArgs.res.status)
              => handlerResult.out =
                   Err(<<"Bad Response From API", StatusText(handlerArgs.res.status)>>
                       \o handlerArgs.res.body)

\* C15: status validation comes first: on a response whose status is out of
\* range the File handler does not write the file.
C15_NoWriteOnBadStatus ==
    (Ran("file") /\ ~In2xx(handlerArgs.res.status))
    => handlerResult.file = NoFile

\* C16: token lifecycle: the token is empty at construction and is never
\* cleared: once the Token Store holds a token it holds a token in every
\* later state.
C16_TokenNeverCleared ==
    /\ token = ""
    /\ [][Truthy(token) => Truthy(token')]_vars

\* C17: a token is present at execution: the request of a descriptor other
\* than the token exchange is never sent while the Token Store holds no
\* token.
C17_TokenPresentAtExecution ==
    \A c \in Calls : \A i \in 1..Len(log[c]) :
        (desc[c].path # AuthPath /\ log[c][i].e = "send")
        => Truthy(log[c][i].bearer)

\* the call of caller c is the first call made on the client
FreshClient(c) == calls[c] = 1 /\ \A d \in Calls \ {c} : calls[d] = 0

\* every token exchange of the call was answered with a token
EveryExchangeGivesToken(c) ==
    \A i \in 2..Len(log[c]) :
        log[c][i - 1].e = "sendAuth"
        => log[c][i].e = "ok" /\ Truthy(log[c][i].bearer)

\* execution number n of the call's own request was answered as e
ExecutionAnswered(c, n, e) ==
    \A i \in 2..Len(log[c]) :
        (log[c][i - 1].e = "send" /\ Count(SubSeq(log[c], 1, i - 1), "send") = n)
        => log[c][i].e = e

\* C18: on a fresh client, a call whose token exchange is answered with a
\* token T and whose request is answered 200 with a JSON body runs the
\* Authenticator once, which stores T, then sends its request once with
\* Bearer T, and resolves with the parsed body: one authentication and one
\* execution, in that order, and nothing else.
C18_FreshClientScenario ==
    \A c \in Calls :
        (/\ Finished(c) /\ FreshClient(c)
         /\ desc[c].path # AuthPath /\ desc[c].handler = "json"
         /\ EveryExchangeGivesToken(c)
         /\ \A n \in 1..Len(log[c]) : ExecutionAnswered(c, n, "ok"))
        => /\ \E T \in {"T1", "T2"} :
                /\ log[c] = << Event("authenticate", ""), Event("sendAuth", ""),
                               Event("ok", T), Event("send", T), Event("ok", "") >>
                /\ token = T
           /\ promise[c] = [state |-> "resolved", val |-> lastOut[c]]
           /\ ~IsErr(lastOut[c])

\* C18 witness: the first call on the client authenticated, stored T1, sent
\* its request with Bearer T1 and resolved with the parsed JSON object
C18_Witness ==
    \E c \in Calls :
        /\ Finished(c) /\ FreshClient(c) /\ desc[c].handler = "json"
        /\ log[c] = << Event("authenticate", ""), Event("sendAuth", ""),
                       Event("ok", "T1"), Event("send", "T1"), Event("ok", "") >>
        /\ token = "T1"
        /\ promise[c] = [state |-> "resolved", val |-> Val("json", <<"obj">>)]

\* the log of a call that was sent with the held token t0, requeued,
\* re-authenticated to t and sent again with t
StaleTokenRun(t0, t) ==
    << Event("send", t0), Event("status401", ""), Event("requeue", ""),
       Event("authenticate", ""), Event("sendAuth", t0), Event("ok", t),
       Event("send", t), Event("ok", "") >>

\* C19: on a client holding a token T0, a call whose first execution is
\* answered 401, whose token exchange is answered with a token T and whose
\* next execution is answered 200 makes exactly three requests, in the
\* order failed request, token exchange, retried request; it runs the
\* Authenticator once, the retried request carries the newly stored T, and
\* the call resolves.
C19_StaleTokenScenario ==
    \A c \in Calls :
        (/\ Finished(c) /\ desc[c].path # AuthPath
         /\ log[c] # <<>> /\ log[c][1].e = "send" /\ Truthy(log[c][1].bearer)
         /\ ExecutionAnswered(c, 1, "status401")
         /\ \A n \in 2..Len(log[c]) : ExecutionAnswered(c, n, "ok")
         /\ EveryExchangeGivesToken(c))
        => /\ \E T \in {"T1", "T2"} :
                /\ log[c] = StaleTokenRun(log[c][1].bearer, T)
                /\ token = T
           /\ Count(log[c], "send") + Count(log[c], "sendAuth") = 3
           /\ Count(log[c], "authenticate") = 1
           /\ promise[c] = [state |-> "resolved", val |-> lastOut[c]]
           /\ ~IsErr(lastOut[c])

\* C19 witness: a call sent with the stale token T2 was answered 401,
\* re-authenticated to T1, was sent again with Bearer T1 and resolved
C19_Witness ==
    \E c \in Calls :
        /\ Finished(c) /\ desc[c].path # AuthPath
        /\ log[c] = StaleTokenRun("T2", "T1")
        /\ token = "T1"
        /\ promise[c].state = "resolved"

\* the step is the authentication handler of call c running on the answer
\* to a token exchange
AuthHandlerRuns(c) ==
    /\ At(c, "awaitResponse")
    /\ Cur(c).handler = "auth"
    /\ log'[c] # log[c]

\* C20: the Token Store is written by the Authenticator only: every step
\* that changes the token is the authentication handler running on the
\* answer to a token exchange; the gate, Execute, retry-decision and Settle
\* steps and the other handlers leave it unchanged, whatever the other
\* calls in flight are doing.
C20_TokenWrittenByAuthenticatorOnly ==
    [][token' # token => \E c \in Calls : AuthHandlerRuns(c)]_vars

\* C20 witness: the Authenticator of one call has just stored a token that
\* replaced the one another call, still in flight, was sent with
C20_Witness ==
    \E c, d \in Calls :
        /\ c # d
        /\ log[c] # <<>>
        /\ log[c][Len(log[c])] = Event("ok", token) /\ Truthy(token)
        /\ ~Finished(d)
        /\ \E i \in 1..Len(log[d]) :
              log[d][i].e = "send" /\ log[d][i].bearer \notin {"", token}

(* ---------------------------- concurrency ----------------------------- *)

\* the gate of the call found no token: the call began with the Authenticator
ObservedEmptyToken(c) ==
    /\ Len(log[c]) >= 2
    /\ log[c][1].e = "authenticate"
    /\ log[c][2] = Event("sendAuth", "")

\* the call's result was delivered: its promise is settled or its callback
\* was called
Settled(c) == promise[c].state # "pending" \/ callbackCalls[c] # <<>>

\* C21: two overlapping calls that both found the token empty may both run
\* the Authenticator; each authentication that completes overwrites the
\* Token Store with the token it obtained (the last one wins), and both
\* calls, once finished, have sent their own request and are settled.
C21_LastAuthenticationWins ==
    /\ [][\A c \in Calls :
            (AuthHandlerRuns(c) /\ lastOut'[c].t = "token")
            => token' = lastOut'[c].v[1]]_vars
    /\ [](\A c, d \in Calls :
            (c # d /\ ObservedEmptyToken(c) /\ ObservedEmptyToken(d)
             /\ Finished(c) /\ Finished(d))
            => /\ Count(log[c], "send") >= 1
               /\ Settled(c))

\* C21 witness: both calls authenticated on the empty token; the first
\* obtained T1, the second obtained T2 later, so the first call's request
\* went out with T2, the token left in the store; both calls finished
C21_Witness ==
    \E c, d \in Calls :
        /\ c # d /\ Finished(c) /\ Finished(d)
        /\ ObservedEmptyToken(c) /\ ObservedEmptyToken(d)
        /\ log[c][3] = Event("ok", "T1") /\ log[d][3] = Event("ok", "T2")
        /\ Len(log[c]) >= 4 /\ log[c][4] = Event("send", "T2")
        /\ token = "T2"
        /\ Settled(c) /\ Settled(d)

(* ------------------------- errors and handlers ------------------------ *)

\* the caller of c was handed an error: by rejection or through the callback
ErrorReported(c) ==
    \/ promise[c].state = "rejected" /\ IsErr(promise[c].val)
    \/ \E i \in 1..Len(callbackCalls[c]) : IsErr(callbackCalls[c][i].err)

\* C22: all errors surface: a finished call whose last stage failed has
\* rejected its promise with an error or called its callback with an error,
\* and has not resolved; no finished call is left without a report.
C22_ErrorsSurface ==
    \A c \in Calls :
        Finished(c)
        => IF IsErr(lastOut[c])
           THEN ErrorReported(c) /\ promise[c].state # "resolved"
           ELSE promise[c].state = "resolved" /\ ~ErrorReported(c)

\* C22 witness: a call with a callback ended with a transport error, which
\* the callback received
C22_Witness ==
    \E c \in Calls :
        /\ Finished(c) /\ desc[c].callback
        /\ IsErr(lastOut[c]) /\ ~IsStatusError(lastOut[c])
        /\ log[c][Len(log[c])].e = "failed"
        /\ callbackCalls[c] = <<[err |-> lastOut[c], res |-> Undefined]>>

\* the body is not empty and JSON.parse does not accept it
Malformed(body) == body # <<>> /\ IsErr(JSONParse(body))

\* C23: JSON handler, status in 200..299: an empty body yields true, a
\* well-formed JSON body yields its parsed structure, and a malformed body
\* yields the JSON parse error.
C23_JSONHandler ==
    (Ran("json") /\ In2xx(handlerArgs.res.status))
    => LET body == handlerArgs.res.body
           out == handlerResult.out
       IN /\ body = <<>> => out = Val("true", <<>>)
          /\ (body # <<>> /\ ~Malformed(body)) => out = JSONParse(body)
          /\ Malformed(body)
             => out = Err(<<"Error Parsing JSON Response">> \o handlerArgs.syntaxText)

\* C24: Raw handler, status in 200..299: a non-empty body is returned
\* unchanged, leading and trailing whitespace included; an empty body yields
\* true.
C24_RawHandler ==
    (Ran("raw") /\ In2xx(handlerArgs.res.status))
    => LET body == handlerArgs.res.body
           out == handlerResult.out
       IN /\ body = <<>> => out = Val("true", <<>>)
          /\ body # <<>> => out = Val("text", body)

\* C25: File handler, status in 200..299: the content written is the raw
\* body verbatim; a successful write yields the confirmation and a failed
\* write yields the I/O error, which is neither the status error nor a parse
\* error.
C25_FileHandler ==
    (Ran("file") /\ In2xx(handlerArgs.res.status))
    => LET body == handlerArgs.res.body
           out == handlerResult.out
       IN IF handlerArgs.w.ok
          THEN /\ handlerResult.file = [written |-> TRUE, content |-> body]
               /\ out = Val("saved", <<>>)
          ELSE /\ handlerResult.file = NoFile
               /\ out = Err(<<"Error Saving Response to File">> \o handlerArgs.w.text)

(* ------------------------ gate and retry pass ------------------------- *)

\* the step is the gate of call c deciding
GateStep(c) == At(c, "checkAuthentication") /\ stack'[c] # stack[c] /\ SameCall(c)

\* the gate of call c let the descriptor through to Execute
GatePassed(c) == stack'[c][Len(stack'[c])].pc = "executeRequest"

\* C26: the gate succeeds exactly when (a token is stored and the descriptor's
\* retry flag is false) or the descriptor's path is the authentication
\* endpoint, and otherwise hands over to the Authenticator; so a call that is
\* not a retry, on a client with a stored token, goes to Execute without a
\* token exchange, and a call that began with a token exchange found no token.
C26_GateCondition ==
    /\ [][\A c \in Calls :
            GateStep(c)
            => /\ GatePassed(c)
                  <=> \/ token \notin {"", "undefined"} /\ ~Cur(c).retry
                      \/ Cur(c).path = "/oauth2/token"
               /\ ~GatePassed(c) => stack'[c][Len(stack'[c])].pc = "authenticate"
               /\ log'[c] = log[c]
               /\ (Cur(c).path # "/oauth2/token" /\ ~Cur(c).retry)
                  => log[c] = <<>>]_vars
    /\ [](\A c \in Calls :
            (Len(log[c]) >= 2 /\ log[c][1].e = "authenticate")
            => log[c][2].bearer \in {"", "undefined"})

\* C26 witness: the second call on the client found the token T1 stored and
\* sent its request without a token exchange
C26_Witness ==
    \E c \in Calls :
        /\ calls[c] = 2 /\ Finished(c) /\ ~desc[c].retry
        /\ desc[c].path # AuthPath
        /\ log[c][1] = Event("send", "T1")
        /\ Count(log[c], "sendAuth") = 0

\* C27: on the retry pass of a descriptor the gate fails even though a token
\* is stored; the request is sent again only after a run of the
\* Authenticator that started after the requeue has completed with an
\* answer it accepted.
C27_ReauthenticationBeforeResend ==
    /\ [][\A c \in Calls :
            (GateStep(c) /\ Cur(c).path # AuthPath /\ Cur(c).retry)
            => ~GatePassed(c)]_vars
    /\ [](\A c \in Calls : \A i, j \in 1..Len(log[c]) :
            (desc[c].path # AuthPath /\ i < j
             /\ log[c][i].e = "requeue" /\ log[c][j].e = "send")
            => \E k, m \in (i + 1)..(j - 1) :
                  /\ k + 1 < m
                  /\ log[c][k].e = "authenticate"
                  /\ log[c][m - 1].e = "sendAuth"
                  /\ log[c][m].e = "ok")

\* C27 witness: a requeued descriptor whose retry pass found a token stored,
\* ran the token exchange with it and then sent its request again
C27_Witness ==
    \E c \in Calls :
        /\ desc[c].path # AuthPath /\ desc[c].retry
        /\ Len(log[c]) = 7
        /\ log[c][3].e = "requeue"
        /\ log[c][5].e = "sendAuth" /\ Truthy(log[c][5].bearer)
        /\ log[c][7].e = "send"

\* the last entry of the call's log is the answer to a request
PassFinished(c) ==
    log[c] # <<>> /\ log[c][Len(log[c])].e \in {"ok", "status401", "failed"}

\* C28: the retry of a descriptor is sequential to its original attempt: a
\* second execution is sent only after the first was answered with a failure
\* and the descriptor was requeued, and the caller's promise is settled only
\* by the original submission's chain, when no pass of the call is still
\* running.
C28_RetrySequential ==
    /\ [](\A c \in Calls :
            /\ \A i, j \in 1..Len(log[c]) :
                  (i < j /\ log[c][i].e = "send" /\ log[c][j].e = "send")
                  => /\ IsFailure(log[c][i + 1].e)
                     /\ \E k \in (i + 2)..(j - 1) : log[c][k].e = "requeue"
            /\ promise[c].state # "pending"
               => stack[c] = <<>> /\ PassFinished(c))
    /\ [][\A c \in Calls :
            (SameCall(c) /\ promise'[c] # promise[c])
            => Len(stack[c]) = 1 /\ stack'[c] = <<>>]_vars

\* C28 witness: a call that was requeued and executed twice has finished and
\* its promise is resolved
C28_Witness ==
    \E c \in Calls :
        /\ desc[c].path # AuthPath /\ desc[c].retry
        /\ Count(log[c], "send") = 2
        /\ stack[c] = <<>>
        /\ promise[c].state = "resolved"

(* ---------------------------- termination ----------------------------- *)

\* frames of call c that wait for a run of the Authenticator
AuthWaits(c) == Len(SelectSeq(stack[c], LAMBDA fr : fr.pc = "awaitAuth"))

\* C29: every submitted call terminates: it is eventually settled (callback
\* called or promise settled), after a bounded number of stages; the gate of
\* the token-exchange descriptor always passes, so a run of the
\* Authenticator never starts another one.
C29_Terminates ==
    /\ \A c \in Calls : (desc[c] # NoDesc /\ ~Settled(c)) ~> Settled(c)
    /\ [](\A c \in Calls : AuthWaits(c) <= 1 /\ Len(stack[c]) <= 4)
    /\ [][\A c \in Calls :
            (GateStep(c) /\ Top(c).d = "auth") => GatePassed(c)]_vars

\* C29 witness: a call that needed the longest chain (execution, requeue,
\* token exchange sent twice, second execution) is settled
C29_Witness ==
    \E c \in Calls :
        /\ Settled(c) /\ Finished(c)
        /\ Count(log[c], "send") = 2
        /\ Count(log[c], "sendAuth") >= 2

\* C30: for a descriptor other than the token exchange, the Transport is
\* asked to send the descriptor's own request at most twice and the token
\* exchange at most twice: at most four requests per call.
C30_AtMostFourRequests ==
    \A c \in Calls :
        desc[c].path # AuthPath
        => /\ Count(log[c], "send") <= 2
           /\ Count(log[c], "sendAuth") <= 2
           /\ Count(log[c], "send") + Count(log[c], "sendAuth") <= 4

(* ----------------------- fresh client, first 401 ---------------------- *)

\* every token exchange of the call was answered and the Authenticator
\* accepted the answer
EveryExchangeAccepted(c) ==
    \A i \in 2..Len(log[c]) : log[c][i - 1].e = "sendAuth" => log[c][i].e = "ok"

\* what the entries of a log are, in order
Entries(s) == [i \in 1..Len(s) |-> s[i].e]

\* C31: on a fresh client, a call whose token exchanges are accepted and
\* whose first execution is answered 401 authenticates a second time: the
\* Transport sees token exchange, request, token exchange, request, each
\* request carrying the token stored just before it, and the answer to the
\* second request, success or failure, is the outcome of the call.
C31_FreshClientFirst401 ==
    \A c \in Calls :
        (/\ Finished(c) /\ FreshClient(c) /\ desc[c].path # AuthPath
         /\ EveryExchangeAccepted(c)
         /\ ExecutionAnswered(c, 1, "status401"))
        => /\ Len(log[c]) = 11
           /\ SubSeq(Entries(log[c]), 1, 10) =
                << "authenticate", "sendAuth", "ok", "send", "status401",
                   "requeue", "authenticate", "sendAuth", "ok", "send" >>
           /\ log[c][2].bearer = ""
           /\ log[c][4].bearer = log[c][3].bearer
           /\ log[c][8].bearer = log[c][3].bearer
           /\ log[c][10].bearer = log[c][9].bearer
           /\ IF log[c][11].e = "ok"
              THEN promise[c] = [state |-> "resolved", val |-> lastOut[c]]
              ELSE IsFailure(log[c][11].e) /\ Failed(c) /\ ErrorReported(c)

\* C31 witness: the second request of such a call failed with a transport
\* error whose text contains 401, and the call ended with that error
C31_Witness ==
    \E c \in Calls :
        /\ Finished(c) /\ FreshClient(c) /\ desc[c].path # AuthPath
        /\ Len(log[c]) = 11
        /\ log[c][5].e = "status401" /\ log[c][7].e = "authenticate"
        /\ log[c][11].e = "failed" /\ Has401(lastOut[c].v)
        /\ ErrorReported(c)

(* ----------------------------- reentrancy ----------------------------- *)

\* the step is a stage of call c, or the submission of c
StageOf(c) == stack'[c] # stack[c] \/ calls'[c] # calls[c]

\* C32: the pipeline is reentrant per descriptor: a stage of one call leaves
\* the descriptors of every other call (retry and callbackExecuted flags
\* included), their chains, their requests sent, their callbacks and their
\* promises as they were; so the 401 and the retry of one call never make
\* another descriptor execute again or its callback fire.
C32_ReentrantPerDescriptor ==
    [][\A c, d \in Calls :
         (c # d /\ StageOf(c))
         => /\ desc'[d] = desc[d]
            /\ authDesc'[d] = authDesc[d]
            /\ stack'[d] = stack[d]
            /\ log'[d] = log[d]
            /\ callbackCalls'[d] = callbackCalls[d]
            /\ promise'[d] = promise[d]]_vars

\* C32 witness: one call was answered 401 and is in its retry pass while the
\* other, not requeued, has its result and is about to call its callback
C32_Witness ==
    \E c, d \in Calls :
        /\ c # d
        /\ desc[c].retry /\ ~Finished(c)
        /\ Count(log[c], "status401") = 1
        /\ ~desc[d].retry /\ desc[d].callback
        /\ At(d, "resolveRequest") /\ callbackCalls[d] = <<>>
        /\ Count(log[d], "send") = 1

RequestBuilt == buildResult.done /\ buildArgs.fn = "request"

Sent(k) == buildResult.headers[k]

Own(k) == buildArgs.headers[k]

\* the descriptor's headers are merged over the defaults: its value wins on
\* every key it sets, and every default it does not set is kept
MergedOverDefaults ==
    /\ \A k \in HeaderKeys : Own(k) # Absent => Sent(k) = Own(k)
    /\ Own("Accept") = Absent
       => Sent("Accept") = <<"application/json, text/xml">>
    /\ Own("Content-Type") = Absent
       => Sent("Content-Type") = <<"application/*+json">>
    /\ Own("User-Agent") = Absent
       => Sent("User-Agent") = <<"criteo-api-nodejs-client/v">>
    /\ \A k \in HeaderKeys \ DefaultKeys : Own(k) = Absent => Sent(k) = Absent

EqualsJsonIgnoringCase(format) ==
    /\ Len(format) = 4
    /\ format[1] \in {"j", "J"}
    /\ format[2] \in {"s", "S"}
    /\ format[3] \in {"o", "O"}
    /\ format[4] \in {"n", "N"}

\* C34: the handler selected for a report call is a function of the filepath
\* and the query format only: determineStatsHandler gives the File handler
\* bound to the filepath when a filepath is given, otherwise the JSON handler
\* when the format equals 'json' whatever its case, otherwise the Raw handler;
\* determineReportHandler gives the File handler bound to the filepath when a
\* filepath is given and the Raw handler otherwise
C34_HandlerSelection ==
    buildResult.done
    => /\ buildArgs.fn = "determineStatsHandler"
          => buildResult.selected =
                IF buildArgs.filepath \notin {"undefined", ""}
                THEN [handler |-> "file", filepath |-> buildArgs.filepath]
                ELSE IF EqualsJsonIgnoringCase(buildArgs.format)
                THEN [handler |-> "json", filepath |-> "undefined"]
                ELSE [handler |-> "raw", filepath |-> "undefined"]
       /\ buildArgs.fn = "determineReportHandler"
          => buildResult.selected =
                IF buildArgs.filepath \notin {"undefined", ""}
                THEN [handler |-> "file", filepath |-> buildArgs.filepath]
                ELSE [handler |-> "raw", filepath |-> "undefined"]

\* C34 witness: a statistics report asked in format 'JsOn' with no filepath
\* gets the JSON handler
C34_Witness ==
    /\ buildResult.done
    /\ buildArgs.fn = "determineStatsHandler"
    /\ buildArgs.format = <<"J", "s", "O", "n">>
    /\ buildArgs.filepath = "undefined"
    /\ buildResult.selected.handler = "json"

====
